---- MODULE Spec2Model ----
(***************************************************************************)
(* Inventory dynamics under an (s, S) reorder policy, as simulated by      *)
(* day2/efficient_inventory_dynamics.ipynb: the single-path simulators,    *)
(* the batched simulator sim_paths_jitted, the whole-column simulators     *)
(* built on G_vectorized / G_vectorized_parallel, and the chunk-parallel   *)
(* simulator sim_paths_jitted_parallel (one prange iteration per chunk).   *)
(*                                                                         *)
(* Arrays are functions over 0..n-1, as the source indexes them.  Levels   *)
(* are floats in the source whose values are always integral (s, S and     *)
(* initial_x are integral and shocks are integers), so the stores into the *)
(* int32 buffers are exact and levels are modelled as integers.            *)
(***************************************************************************)
EXTENDS Integers, FiniteSets, Sequences, TLC

\* ---------------------------------------------------------------- bounds
MaxPaths == 4
MaxLen == 4
MaxSections == 2
MaxDemand == 2
MaxDraws == 4

\* ------------------------------------------------- notebook parameters
NotebookReorderPoint == 10
NotebookOrderUpTo == 100
NotebookInitial == 50

VARIABLES
    s,          \* reorder point (module global)
    S,          \* order-up-to level (module global)
    initial_x,  \* initial inventory level (module global)
    call,       \* the simulator call being executed and its arguments
    pc,         \* position of the calling thread
    X,          \* the 2-D buffer of the top-level call
    X1,         \* the 1-D buffer of a single-path call
    D1,         \* the shocks drawn by a single-path call
    alloc,      \* TRUE once some np.empty has handed out a buffer
    fr,         \* one frame per running invocation of a batched simulator
    writes,     \* <<chunk, row>> for every row a chunk has stored into X
    rng,        \* np.random: one generator per thread (its output, its position)
    run,        \* 1 for the first call, 2 for the same call made again
    mark,       \* per thread, the generator's position when the call was made again
    Xprev,      \* what the first call returned (2-D)
    X1prev      \* what the first call returned (1-D)

vars == <<s, S, initial_x, call, pc, X, X1, D1, alloc, fr, writes,
          rng, run, mark, Xprev, X1prev>>

\* The threads that run compiled code.  A top-level call of a sequential
\* simulator runs on thread 0; the iterations of a prange are handed to the
\* threads of the pool.  The state of np.random is kept per thread.
PoolThreads == {0, 1}

\* Demand shocks: np.random.geometric(p, ...) - 1 has support {0, 1, 2, ...}.
Demands == 0..MaxDemand

\* np.empty does not initialise: a cell holds whatever the allocator hands
\* out, any int32, cell by cell and call by call.  Contents a read of such
\* a cell may find: a negative value, and zero (a fresh page), which is
\* also a level.
GarbageValues == {-1, 0}

\* A cell no store has reached yet.  Its content is not determined before
\* it is read; Uninit is no level and no member of GarbageValues.
Uninit == -9

\* The module globals s, S, initial_x: the notebook's values, the notebook's
\* policy entered at its reorder point, and small policies under which a
\* short path meets the reorder branch and both floors at zero.
Policies ==
    { [s |-> NotebookReorderPoint, S |-> NotebookOrderUpTo, initial_x |-> NotebookInitial],
      [s |-> NotebookReorderPoint, S |-> NotebookOrderUpTo, initial_x |-> NotebookReorderPoint],
      [s |-> 0, S |-> 1, initial_x |-> 1],
      [s |-> 2, S |-> 1, initial_x |-> 3] }

Max(a, b) == IF a >= b THEN a ELSE b

Fns == {"sim_one_inventory_path_simple", "sim_one_inventory_path_jitted",
        "sim_paths_jitted", "sim_paths_vectorized",
        "sim_paths_vectorized_parallel", "sim_paths_jitted_parallel"}

OneFns == {"sim_one_inventory_path_simple", "sim_one_inventory_path_jitted"}
BatchFns == {"sim_paths_jitted", "sim_paths_vectorized", "sim_paths_vectorized_parallel"}

section_size_ceil(num_paths, sections) == (num_paths + sections - 1) \div sections

\* section_size = num_paths // sections (sections > 0)
section_size(num_paths, sections) == num_paths \div sections

\* Number of shocks a call draws when it runs to completion.
DrawsOf(c) ==
    IF c.sim_length < 2 THEN 0
    ELSE IF c.fn = "sim_paths_jitted_parallel"
         THEN IF c.sections = 0 THEN 0
              ELSE c.sections * section_size(c.num_paths, c.sections) * (c.sim_length - 1)
         ELSE c.num_paths * (c.sim_length - 1)

Calls ==
    { c \in [fn : Fns, num_paths : 0..MaxPaths, sim_length : 0..MaxLen,
             sections : 0..MaxSections] :
        /\ c.fn # "sim_paths_jitted_parallel" => c.sections = 1
        /\ c.fn \in OneFns => c.num_paths = 1
        /\ DrawsOf(c) <= MaxDraws }

\* np.empty((n, T)): n rows of T uninitialised cells.
Empty2(n, T) == [m \in 0..(n-1) |-> [t \in 0..(T-1) |-> Uninit]]
\* np.empty(T)
Empty1(T) == [t \in 0..(T-1) |-> Uninit]

\* What a caller can find in the returned array B: the stored cells as
\* stored, and any content, cell by cell, in those never stored.
Observed(B) ==
    LET U == UNION { { <<m, c>> : c \in { k \in DOMAIN B[m] : B[m][k] = Uninit } } :
                     m \in DOMAIN B }
    IN { [m \in DOMAIN B |->
            [c \in DOMAIN B[m] |-> IF B[m][c] = Uninit THEN g[<<m, c>>] ELSE B[m][c]]] :
         g \in [U -> GarbageValues] }

\* -------------------------------------------------- single-path simulators
RECURSIVE PathLoopSimple(_, _, _)
\* for t, d in enumerate(dvals): the loop body, from period t on
PathLoopSimple(P, dvals, t) ==
    IF t \notin DOMAIN dvals THEN P
    ELSE LET x == P[t]
             d == dvals[t]
             y == IF x <= s THEN Max(S - d, 0) ELSE Max(x - d, 0)
         IN PathLoopSimple([P EXCEPT ![t+1] = y], dvals, t + 1)

sim_one_inventory_path_simple(sim_length, dvals) ==
    PathLoopSimple([Empty1(sim_length) EXCEPT ![0] = initial_x], dvals, 0)

RECURSIVE PathLoopJitted(_, _, _)
PathLoopJitted(P, dvals, t) ==
    IF t \notin DOMAIN dvals THEN P
    ELSE LET x == P[t]
             d == dvals[t]
             y == IF x <= s THEN Max(S - d, 0) ELSE Max(x - d, 0)
         IN PathLoopJitted([P EXCEPT ![t+1] = y], dvals, t + 1)

sim_one_inventory_path_jitted(sim_length, dvals) ==
    PathLoopJitted([Empty1(sim_length) EXCEPT ![0] = initial_x], dvals, 0)

\* ------------------------------------------------ elementwise transitions
G_vectorized(x, d) ==
    IF x <= s THEN Max(S - d, 0) ELSE Max(x - d, 0)

G_vectorized_parallel_strict(x, d) ==
    IF x < s THEN Max(S - d, 0) ELSE Max(x - d, 0)

G_vectorized_parallel(x, d) ==
    IF x <= s THEN Max(S - d, 0) ELSE Max(x - d, 0)

\* The body of the inner loop of sim_paths_jitted for one path.
InnerRule_strict(x, d) ==
    IF x < s THEN Max(S - d, 0) ELSE Max(x - d, 0)

InnerRule_add(x, d) ==
    IF x <= s THEN Max(S - d, 0) ELSE Max(x + d, 0)

InnerRule_restock(x, d) == Max(S - d, 0)

InnerRule(x, d) ==
    IF x <= s THEN Max(S - d, 0) ELSE Max(x - d, 0)

\* d = dvals[m]: the shock of path m in the batch drawn for the period
ShockOf_first(dvals, m) == dvals[0]

ShockOf(dvals, m) == dvals[m]

\* X[m, t+1] = y: the column the inner loop stores into
NextColumn_same(t) == t

NextColumn_skip(t) == t + 2

NextColumn(t) == t + 1

RECURSIVE InnerLoop(_, _, _, _)
\* for m in range(num_paths): the loop body of period t, from path m on
InnerLoop(B, dvals, t, m) ==
    IF m \notin DOMAIN B THEN B
    ELSE LET y == InnerRule(B[m][t], ShockOf(dvals, m))
         IN InnerLoop([B EXCEPT ![m][NextColumn(t)] = y], dvals, t, m + 1)

RECURSIVE OuterLoop(_, _, _)
\* for t in range(sim_length-1), from period t on, with the batches D drawn
OuterLoop(B, D, t) ==
    IF t \notin DOMAIN D THEN B
    ELSE OuterLoop(InnerLoop(B, D[t], t, 0), D, t + 1)

\* The ensemble sim_paths_jitted returns when its draws are the batches D.
sim_paths_jitted(num_paths, sim_length, D) ==
    LET B == Empty2(num_paths, sim_length)
    IN OuterLoop([m \in DOMAIN B |-> [B[m] EXCEPT ![0] = initial_x]], D, 0)

\* ----------------------------------------------------------------- frames
NewFrame(fn, n, T) ==
    [fn |-> fn, pc |-> "call", num_paths |-> n, sim_length |-> T,
     X |-> <<>>, t |-> 0, m |-> 0, dvals |-> <<>>, D |-> <<>>,
     out |-> <<>>, todo |-> {}, row |-> 0,
     thread |-> 0,   \* the thread the invocation runs on
     log |-> {}]     \* <<path, column, shock>> for every store past column 0

\* A generator after a batch of n values has been taken from it.
Advance_none(pos, n) == pos

Advance(pos, n) == pos + n

\* dv is the batch the generator gen yields next: the values its stream
\* holds from its position on, any values beyond what it has output so far.
Yields(gen, dv) ==
    \A k \in DOMAIN dv :
        gen.pos + k + 1 <= Len(gen.tape) => dv[k] = gen.tape[gen.pos + k + 1]

AfterDraw(gen, dv) ==
    LET n == Cardinality(DOMAIN dv)
        end == gen.pos + n
    IN [tape |-> [j \in 1..Max(Len(gen.tape), end) |->
                    IF j > gen.pos /\ j <= end THEN dv[j - gen.pos - 1]
                    ELSE gen.tape[j]],
        pos |-> Advance(gen.pos, n)]

Init ==
    /\ \E pol \in Policies :
        /\ s = pol.s
        /\ S = pol.S
        /\ initial_x = pol.initial_x
    /\ call \in Calls
    /\ pc = "call"
    /\ X = <<>>
    /\ X1 = <<>>
    /\ D1 = <<>>
    /\ alloc = FALSE
    /\ fr = <<>>
    /\ writes = {}
    /\ rng = [g \in PoolThreads |-> [tape |-> <<>>, pos |-> 0]]
    /\ run = 1
    /\ mark = [g \in PoolThreads |-> 0]
    /\ Xprev = <<>>
    /\ X1prev = <<>>

\* What no step of a simulator changes.
Policy == <<s, S, initial_x, call, run, mark, Xprev, X1prev>>

\* A single-path call.  The shocks are drawn first, sim_length - 1 of them
\* (a negative size is rejected by the draw), then the buffer is allocated
\* and the loop runs on the calling thread.
SimOne ==
    /\ pc = "call"
    /\ call.fn \in OneFns
    /\ IF call.sim_length - 1 < 0
       THEN /\ pc' = "error"
            /\ UNCHANGED <<X1, D1, alloc, rng>>
       ELSE \E dvals \in [0..(call.sim_length - 2) -> Demands] :
            /\ Yields(rng[0], dvals)
            /\ rng' = [rng EXCEPT ![0] = AfterDraw(rng[0], dvals)]
            /\ D1' = dvals
            /\ X1' = IF call.fn = "sim_one_inventory_path_simple"
                     THEN sim_one_inventory_path_simple(call.sim_length, dvals)
                     ELSE sim_one_inventory_path_jitted(call.sim_length, dvals)
            /\ alloc' = TRUE
            /\ pc' = "done"
    /\ UNCHANGED <<Policy, X, fr, writes>>

\* Entry of a top-level call of a batched simulator.
CallBatch ==
    /\ pc = "call"
    /\ call.fn \in BatchFns
    /\ fr' = [i \in {0} |-> NewFrame(call.fn, call.num_paths, call.sim_length)]
    /\ pc' = "running"
    /\ UNCHANGED <<Policy, rng, X, X1, D1, alloc, writes>>

Running == pc \in {"running", "prange"}

AfterPeriod_short(f) ==
    IF f.t + 1 < f.sim_length - 2 THEN "draw" ELSE "ret"

\* Position after the body of period t has been completed.
AfterPeriod(f) ==
    IF f.t + 1 < f.sim_length - 1 THEN "draw" ELSE "ret"

ThreadFree_idle(i) ==
    \A k \in DOMAIN fr \ {i} :
        fr[k].thread = fr[i].thread => fr[k].pc = "finished"

\* A thread runs one invocation at a time, each to its end.
ThreadFree(i) ==
    \A k \in DOMAIN fr \ {i} :
        fr[k].thread = fr[i].thread => fr[k].pc \in {"call", "finished"}

\* X = np.empty((num_paths, sim_length)); X[:, 0] = initial_x
\* With sim_length = 0 the store into column 0 is out of bounds: NumPy
\* raises; compiled code raises when built with bounds checking and carries
\* on when built without.
FrameAlloc(i) ==
    /\ Running
    /\ i \in DOMAIN fr
    /\ fr[i].pc = "call"
    /\ ThreadFree(i)
    /\ alloc' = TRUE
    /\ LET f == fr[i]
           B == Empty2(f.num_paths, f.sim_length)
       IN IF f.sim_length = 0
          THEN \/ /\ pc' = "error"
                  /\ fr' = [fr EXCEPT ![i].X = B, ![i].pc = "error"]
               \/ /\ f.fn = "sim_paths_jitted"
                  /\ pc' = pc
                  /\ fr' = [fr EXCEPT ![i].X = B, ![i].pc = "ret"]
          ELSE /\ pc' = pc
               /\ fr' = [fr EXCEPT
                           ![i].X = [m \in DOMAIN B |-> [B[m] EXCEPT ![0] = initial_x]],
                           ![i].pc = IF 0 < f.sim_length - 1 THEN "draw" ELSE "ret"]
    /\ UNCHANGED <<Policy, rng, X, X1, D1, writes>>

\* dvals = np.random.geometric(p, size=num_paths) - 1
FrameDraw(i) ==
    /\ Running
    /\ i \in DOMAIN fr
    /\ fr[i].pc = "draw"
    /\ LET f == fr[i] IN
       \E dv \in [0..(f.num_paths - 1) -> Demands] :
         /\ Yields(rng[f.thread], dv)
         /\ rng' = [rng EXCEPT ![f.thread] = AfterDraw(rng[f.thread], dv)]
         /\ fr' = [fr EXCEPT
                  ![i].dvals = dv,
                  ![i].D = [k \in 0..f.t |-> IF k = f.t THEN dv ELSE f.D[k]],
                  ![i].m = 0,
                  ![i].pc = IF f.fn = "sim_paths_jitted"
                            THEN IF f.num_paths > 0 THEN "inner" ELSE AfterPeriod(f)
                            ELSE IF f.fn = "sim_paths_vectorized" THEN "column"
                            ELSE "tasks",
                  ![i].t = IF f.fn = "sim_paths_jitted" /\ f.num_paths = 0
                           THEN f.t + 1 ELSE f.t,
                  ![i].out = IF f.fn = "sim_paths_vectorized_parallel"
                             THEN [m \in 0..(f.num_paths - 1) |-> Uninit] ELSE f.out,
                  ![i].todo = IF f.fn = "sim_paths_vectorized_parallel"
                              THEN 0..(f.num_paths - 1) ELSE f.todo]
    /\ UNCHANGED <<Policy, pc, X, X1, D1, alloc, writes>>

\* One iteration of `for m in range(num_paths)` in sim_paths_jitted.
FrameInner(i) ==
    /\ Running
    /\ i \in DOMAIN fr
    /\ fr[i].pc = "inner"
    /\ LET f == fr[i]
           x == f.X[f.m][f.t]
           d == ShockOf(f.dvals, f.m)
           y == InnerRule(x, d)
           last == f.m + 1 >= f.num_paths
       IN fr' = [fr EXCEPT
                   ![i].X = [f.X EXCEPT ![f.m][NextColumn(f.t)] = y],
                   ![i].log = f.log \cup {<<f.m, NextColumn(f.t), d>>},
                   ![i].m = IF last THEN 0 ELSE f.m + 1,
                   ![i].t = IF last THEN f.t + 1 ELSE f.t,
                   ![i].pc = IF last THEN AfterPeriod(f) ELSE "inner"]
    /\ UNCHANGED <<Policy, rng, pc, X, X1, D1, alloc, writes>>

\* X[:, t+1] = G_vectorized(X[:, t], dvals)
FrameColumn(i) ==
    /\ Running
    /\ i \in DOMAIN fr
    /\ fr[i].pc = "column"
    /\ LET f == fr[i] IN
       fr' = [fr EXCEPT
                ![i].X = [m \in DOMAIN f.X |->
                            [f.X[m] EXCEPT ![f.t + 1] = G_vectorized(f.X[m][f.t], f.dvals[m])]],
                ![i].log = f.log \cup {<<m, f.t + 1, f.dvals[m]>> : m \in DOMAIN f.X},
                ![i].t = f.t + 1,
                ![i].pc = AfterPeriod(f)]
    /\ UNCHANGED <<Policy, rng, pc, X, X1, D1, alloc, writes>>

\* One elementwise task of G_vectorized_parallel(X[:, t], dvals): the tasks
\* of one period run on the ufunc's threads in any order.
FrameTask(i) ==
    /\ Running
    /\ i \in DOMAIN fr
    /\ fr[i].pc = "tasks"
    /\ LET f == fr[i] IN
       \E m \in f.todo :
         fr' = [fr EXCEPT
                  ![i].out = [f.out EXCEPT ![m] = G_vectorized_parallel(f.X[m][f.t], f.dvals[m])],
                  ![i].todo = f.todo \ {m}]
    /\ UNCHANGED <<Policy, rng, pc, X, X1, D1, alloc, writes>>

\* X[:, t+1] = <result of the parallel ufunc>, once all its tasks are done
FrameAssign(i) ==
    /\ Running
    /\ i \in DOMAIN fr
    /\ fr[i].pc = "tasks"
    /\ fr[i].todo = {}
    /\ LET f == fr[i] IN
       fr' = [fr EXCEPT
                ![i].X = [m \in DOMAIN f.X |-> [f.X[m] EXCEPT ![f.t + 1] = f.out[m]]],
                ![i].log = f.log \cup {<<m, f.t + 1, f.dvals[m]>> : m \in DOMAIN f.X},
                ![i].t = f.t + 1,
                ![i].pc = AfterPeriod(f)]
    /\ UNCHANGED <<Policy, rng, pc, X, X1, D1, alloc, writes>>

\* return X, for a top-level call of a batched simulator
Return ==
    /\ pc = "running"
    /\ fr[0].pc = "ret"
    /\ X' \in Observed(fr[0].X)
    /\ fr' = [fr EXCEPT ![0].pc = "finished"]
    /\ pc' = "done"
    /\ UNCHANGED <<Policy, rng, X1, D1, alloc, writes>>

\* ------------------------------------------------- chunk-parallel simulator
\* X = np.empty((num_paths, sim_length), dtype=np.int32)
ParAlloc ==
    /\ pc = "call"
    /\ call.fn = "sim_paths_jitted_parallel"
    /\ X' = Empty2(call.num_paths, call.sim_length)
    /\ alloc' = TRUE
    /\ pc' = "allocated"
    /\ UNCHANGED <<Policy, rng, X1, D1, fr, writes>>

\* The ways the iterations of a prange of k chunks can fall to the threads
\* of the pool.  In a first call the threads are interchangeable, so they
\* are numbered from the one that takes chunk 0.
Schedules(k) ==
    { th \in [0..(k - 1) -> PoolThreads] : run = 1 => th[0] = 0 }

\* section_size = num_paths // sections, then the prange over the chunks:
\* every iteration is handed to the thread pool, where it starts by calling
\* sim_paths_jitted(num_paths=section_size, sim_length=sim_length).
\* Integer division by zero raises.
ParFork ==
    /\ pc = "allocated"
    /\ IF call.sections = 0
       THEN /\ pc' = "error"
            /\ fr' = fr
       ELSE /\ pc' = "prange"
            /\ \E th \in Schedules(call.sections) :
                 fr' = [i \in 0..(call.sections - 1) |->
                          [NewFrame("sim_paths_jitted",
                                    section_size(call.num_paths, call.sections),
                                    call.sim_length)
                           EXCEPT !.thread = th[i]]]
    /\ UNCHANGED <<Policy, rng, X, X1, D1, alloc, writes>>

\* j = i * section_size
section_start_index(i, size) == i

section_start(i, size) == i * size

\* X[j:j+section_size, :] = <the chunk's ensemble>, stored row by row;
\* the iteration ends once all its rows are stored.
ChunkStore(i) ==
    /\ pc = "prange"
    /\ i \in DOMAIN fr
    /\ fr[i].pc = "ret"
    /\ LET f == fr[i]
           size == section_size(call.num_paths, call.sections)
           j == section_start(i, size)
       IN IF f.row < size
          THEN /\ X' = [m \in DOMAIN X |-> IF m = j + f.row THEN f.X[f.row] ELSE X[m]]
               /\ writes' = writes \cup {<<i, j + f.row>>}
               /\ fr' = [fr EXCEPT ![i].row = f.row + 1]
          ELSE /\ fr' = [fr EXCEPT ![i].pc = "finished"]
               /\ UNCHANGED <<X, writes>>
    /\ UNCHANGED <<Policy, rng, pc, X1, D1, alloc>>

Join_any ==
    /\ pc = "prange"
    /\ \E i \in DOMAIN fr : fr[i].pc = "finished"
    /\ X' \in Observed(X)
    /\ pc' = "done"
    /\ UNCHANGED <<Policy, rng, X1, D1, alloc, fr, writes>>

\* The end of the prange is a barrier: `return X` runs once every
\* iteration has ended.
Join ==
    /\ pc = "prange"
    /\ \A i \in DOMAIN fr : fr[i].pc = "finished"
    /\ X' \in Observed(X)
    /\ pc' = "done"
    /\ UNCHANGED <<Policy, rng, X1, D1, alloc, fr, writes>>

Next ==
    \/ SimOne
    \/ CallBatch
    \/ Return
    \/ ParAlloc
    \/ ParFork
    \/ Join
    \/ \E i \in DOMAIN fr : FrameAlloc(i)
    \/ \E i \in DOMAIN fr : FrameDraw(i)
    \/ \E i \in DOMAIN fr : FrameInner(i)
    \/ \E i \in DOMAIN fr : FrameColumn(i)
    \/ \E i \in DOMAIN fr : FrameTask(i)
    \/ \E i \in DOMAIN fr : FrameAssign(i)
    \/ \E i \in DOMAIN fr : ChunkStore(i)

Spec == Init /\ [][Next]_vars

\* The same call made a second time.  Nothing touches np.random between
\* the two calls: every thread's generator goes on where the first call
\* left it.
Again ==
    /\ pc = "done"
    /\ run = 1
    /\ run' = 2
    /\ mark' = [g \in PoolThreads |-> rng[g].pos]
    /\ Xprev' = X
    /\ X1prev' = X1
    /\ pc' = "call"
    /\ X' = <<>>
    /\ X1' = <<>>
    /\ D1' = <<>>
    /\ alloc' = FALSE
    /\ fr' = <<>>
    /\ writes' = {}
    /\ UNCHANGED <<s, S, initial_x, call, rng>>

NextReplay == Next \/ Again

\* The calls that are made twice, under one policy: those whose two runs
\* together draw no more than MaxDraws shocks.
InitReplay == Init /\ s = 0 /\ 2 * DrawsOf(call) <= MaxDraws

SpecReplay == InitReplay /\ [][NextReplay]_vars

\* The chunk-parallel simulator on its own, with its scheduling: the calling
\* thread keeps running, and so does the pool thread of every chunk.
InitPar == Init /\ call.fn = "sim_paths_jitted_parallel" /\ s = 0

\* The steps of the calling thread.
MainThread == ParAlloc \/ ParFork \/ Join

\* The steps of the prange iteration of chunk i.
ChunkWorker(i) == FrameAlloc(i) \/ FrameDraw(i) \/ FrameInner(i) \/ ChunkStore(i)

NextPar ==
    \/ ParAlloc
    \/ ParFork
    \/ Join
    \/ \E i \in DOMAIN fr : FrameAlloc(i)
    \/ \E i \in DOMAIN fr : FrameDraw(i)
    \/ \E i \in DOMAIN fr : FrameInner(i)
    \/ \E i \in DOMAIN fr : ChunkStore(i)

SpecPar ==
    /\ InitPar
    /\ [][NextPar]_vars
    /\ WF_vars(MainThread)
    /\ \A i \in 0..(MaxSections - 1) : WF_vars(ChunkWorker(i))

\* ------------------------------------------------------------ properties
T == call.sim_length
N == call.num_paths
IsPar == call.fn = "sim_paths_jitted_parallel"

\* The transition as the policy states it: restock to S when the level is
\* at or below s, then deplete by the shock, losing unmet demand.
StepSpec(x, d) ==
    LET stock == IF x > s THEN x ELSE S
    IN IF stock - d > 0 THEN stock - d ELSE 0

\* Column c >= 1 of path m has been stored by frame f.
Written(f, m, c) ==
    \/ c <= f.t
    \/ c = f.t + 1 /\ f.pc = "inner" /\ m < f.m

Started(f) == f.pc \notin {"call", "error"}

\* The shocks path m of frame f has consumed, in period order.
OwnShocks(f, m) == [k \in DOMAIN f.D |-> f.D[k][m]]

ScenarioShocks == (0 :> 1) @@ (1 :> 2) @@ (2 :> 2)
ScenarioPath == (0 :> 50) @@ (1 :> 49) @@ (2 :> 47) @@ (3 :> 45)
NotebookPolicy ==
    s = NotebookReorderPoint /\ S = NotebookOrderUpTo /\ initial_x = NotebookInitial

\* C1: every implementation of the transition (the inline rule of the
\* single-path simulators, the inner loop of sim_paths_jitted, G_vectorized
\* and G_vectorized_parallel) stores max(S - d, 0) after a level x <= s and
\* max(x - d, 0) after a level x > s; from 50 with shocks [1, 2, 2] under
\* the notebook's policy the path is [50, 49, 47, 45].
TransitionCorrect ==
    /\ \A i \in DOMAIN fr :
        LET f == fr[i] IN
        Started(f) =>
          /\ \A m \in DOMAIN f.X : \A c \in 1..(f.sim_length - 1) :
                Written(f, m, c) => f.X[m][c] = StepSpec(f.X[m][c-1], f.D[c-1][m])
          /\ f.pc = "tasks" =>
                \A m \in (DOMAIN f.out) \ f.todo :
                    f.out[m] = StepSpec(f.X[m][f.t], f.dvals[m])
          /\ (NotebookPolicy /\ f.pc \in {"ret", "finished"}) =>
                \A m \in DOMAIN f.X :
                    OwnShocks(f, m) = ScenarioShocks => f.X[m] = ScenarioPath
    /\ (pc = "done" /\ call.fn \in OneFns) =>
          /\ \A c \in 1..(T - 1) : X1[c] = StepSpec(X1[c-1], D1[c-1])
          /\ (NotebookPolicy /\ D1 = ScenarioShocks) => X1 = ScenarioPath

\* The inner loop of sim_paths_jitted has met a level equal to s = 10 with
\* shock 2 under S = 100 and stored 98.
WitnessReorderAtS ==
    \E i \in DOMAIN fr :
        LET f == fr[i] IN
        /\ f.fn = "sim_paths_jitted" /\ Started(f)
        /\ s = NotebookReorderPoint /\ S = NotebookOrderUpTo
        /\ \E m \in DOMAIN f.X :
            /\ f.sim_length >= 2 /\ Written(f, m, 1)
            /\ f.X[m][0] = s /\ f.D[0][m] = 2 /\ f.X[m][1] = 98

\* C2: every inventory level of every path of the array a simulator
\* returns is >= 0.
NonNegative ==
    pc = "done" =>
        /\ call.fn \in OneFns => \A c \in DOMAIN X1 : X1[c] >= 0
        /\ call.fn \notin OneFns =>
              \A m \in DOMAIN X : \A c \in DOMAIN X[m] : X[m][c] >= 0

\* C3: when sim_paths_jitted_parallel returns from a call with
\* num_paths >= 1, sections >= 1 and a horizon of at least one period,
\* every row index in [0, num_paths) has been stored by exactly one chunk.
ChunksPartition ==
    (pc = "done" /\ IsPar /\ N >= 1 /\ call.sections >= 1 /\ T >= 1) =>
        \A r \in 0..(N - 1) : Cardinality({w \in writes : w[2] = r}) = 1

\* C4: chunk i stores only rows in [i*section_size, (i+1)*section_size),
\* each of them inside [0, num_paths), and no row is stored by two chunks.
WriteDisjoint ==
    IsPar =>
        /\ \A w \in writes :
            LET size == section_size(N, call.sections) IN
            /\ w[1] * size <= w[2] /\ w[2] < (w[1] + 1) * size
            /\ 0 <= w[2] /\ w[2] < N
        /\ \A v, w \in writes : v[2] = w[2] => v[1] = w[1]

\* Two chunks of two rows each have stored all their rows.
WitnessTwoChunksStored ==
    /\ IsPar /\ call.sections = 2 /\ N = 4 /\ T >= 2
    /\ Cardinality(writes) = 4

\* C5: fed the same shocks in the same order, sim_one_inventory_path_jitted,
\* sim_paths_jitted with num_paths=1 and sim_paths_jitted_parallel with
\* num_paths=1, sections=1 return the same trajectory, for sim_length >= 1:
\* the batched and the chunk-parallel call consume sim_length - 1 shocks, as
\* the single-path simulator does, and return the path it computes from them.
SameTrajectory ==
    (/\ pc = "done" /\ T >= 1 /\ N = 1
     /\ \/ call.fn = "sim_paths_jitted"
        \/ IsPar /\ call.sections = 1) =>
        /\ DOMAIN OwnShocks(fr[0], 0) = 0..(T - 2)
        /\ X[0] = sim_one_inventory_path_jitted(T, OwnShocks(fr[0], 0))

\* The chunk-parallel simulator has returned a path of four periods that
\* went through a reorder.
WitnessOnePathParallel ==
    /\ pc = "done" /\ IsPar /\ N = 1 /\ call.sections = 1 /\ T = 4
    /\ \E c \in 1..3 : X[0][c] > X[0][c-1]

\* C6: the ensemble sim_paths_jitted_parallel returns equals the row-wise
\* concatenation, in chunk-index order, of the ensembles sim_paths_jitted
\* produced for the chunks (for a horizon of at least one period).
ChunkConcatenation ==
    (pc = "done" /\ IsPar /\ T >= 1) =>
        LET size == section_size(N, call.sections) IN
        X = [r \in 0..(call.sections * size - 1) |->
                fr[r \div size].X[r % size]]

\* C7: the trajectory of path m of a batch is a function of initial_x, the
\* policy and path m's own shocks: it is the trajectory the single-path
\* loop computes from those shocks, and path m of two chunks that consumed
\* the same own shocks is the same whatever their other paths consumed.
NoCoupling ==
    /\ \A i \in DOMAIN fr :
        LET f == fr[i] IN
        (f.pc \in {"ret", "finished"} /\ f.sim_length >= 1) =>
            \A m \in DOMAIN f.X :
                f.X[m] = sim_one_inventory_path_jitted(f.sim_length, OwnShocks(f, m))
    /\ \A i, k \in DOMAIN fr :
        (fr[i].pc \in {"ret", "finished"} /\ fr[k].pc \in {"ret", "finished"}) =>
            \A m \in DOMAIN fr[i].X :
                OwnShocks(fr[i], m) = OwnShocks(fr[k], m) => fr[i].X[m] = fr[k].X[m]

\* Two chunks have finished whose paths 0 consumed the same shock and
\* whose paths 1 consumed different ones.
WitnessOtherPathsDiffer ==
    /\ IsPar /\ call.sections = 2 /\ {0, 1} \subseteq DOMAIN fr
    /\ fr[0].pc = "finished" /\ fr[1].pc = "finished"
    /\ fr[0].num_paths = 2 /\ fr[0].sim_length = 2
    /\ fr[0].D[0][0] = fr[1].D[0][0]
    /\ fr[0].D[0][1] # fr[1].D[0][1]
    /\ fr[0].X[1] # fr[1].X[1]

\* C8: sim_paths_jitted_parallel has returned only if every chunk has
\* completed all its periods and stored all its rows.
JoinBeforeReturn ==
    (pc = "done" /\ IsPar) =>
        \A i \in 0..(call.sections - 1) :
            /\ i \in DOMAIN fr
            /\ fr[i].pc = "finished"
            /\ fr[i].t = Max(T - 1, 0)
            /\ \A r \in 0..(section_size(N, call.sections) - 1) :
                  <<i, i * section_size(N, call.sections) + r>> \in writes

\* A call with two chunks of one path and three periods each has returned.
WitnessJoined ==
    /\ pc = "done" /\ IsPar /\ call.sections = 2 /\ N = 2 /\ T = 3

\* C9: a batched simulator called with num_paths=N, sim_length=T returns N
\* rows of T columns, column 0 holds initial_x in every row, and no later
\* store overwrites column 0.
ShapeInvariant ==
    /\ (pc = "done" /\ call.fn \in BatchFns) =>
         /\ DOMAIN X = 0..(N - 1)
         /\ \A m \in DOMAIN X :
              /\ DOMAIN X[m] = 0..(T - 1)
              /\ T >= 1 => X[m][0] = initial_x
    /\ \A i \in DOMAIN fr :
         (Started(fr[i]) /\ fr[i].sim_length >= 1) =>
            \A m \in DOMAIN fr[i].X : fr[i].X[m][0] = initial_x

\* sim_paths_jitted has returned three rows of two columns.
WitnessShape ==
    /\ pc = "done" /\ call.fn = "sim_paths_jitted" /\ N = 3 /\ T = 2
    /\ \E m \in DOMAIN X : X[m][1] # initial_x

InvalidSizing ==
    \/ call.fn \in OneFns /\ T < 1
    \/ call.fn \in BatchFns /\ (N < 1 \/ T < 1)
    \/ IsPar /\ call.sections < 1

\* C10: a call with invalid sizing allocates no buffer and returns nothing.
EagerRejection ==
    InvalidSizing => (~alloc /\ pc # "done")

\* The demand source was in the same state when the two calls were made:
\* every generator yields in the second call what it yielded in the first.
SameSource ==
    \A g \in PoolThreads :
        \A k \in 1..Len(rng[g].tape) :
            mark[g] + k <= Len(rng[g].tape) =>
                rng[g].tape[mark[g] + k] = rng[g].tape[k]

\* Every row of the ensemble belongs to a chunk.
NoRemainder == IsPar => (call.sections >= 1 /\ N % call.sections = 0)

\* C11: a simulator called twice with the same arguments and the demand
\* source in the same state returns the same array both times, whatever
\* the interleaving of the chunks.
Deterministic ==
    (run = 2 /\ pc = "done" /\ SameSource /\ NoRemainder /\ T >= 1) =>
        (X = Xprev /\ X1 = X1prev)

\* The sequential simulators alone, called twice from the same state of
\* the demand source, return the same array.
DeterministicSequential ==
    (run = 2 /\ pc = "done" /\ SameSource /\ ~IsPar) => (X = Xprev /\ X1 = X1prev)

\* C12: each chunk of sim_paths_jitted_parallel draws its shocks from a
\* stream of its own: no two chunks that have consumed a shock use the same
\* generator.
ChunkLocalStreams ==
    IsPar =>
        \A i, k \in DOMAIN fr :
            (i # k /\ fr[i].log # {} /\ fr[k].log # {}) =>
                fr[i].thread # fr[k].thread

\* C13: when sections does not divide num_paths, sim_paths_jitted_parallel
\* gives every chunk num_paths // sections paths, raises nothing, and no
\* chunk ever stores into the rows from sections * (num_paths // sections)
\* on: they stay as np.empty left them until the call returns, and the
\* caller finds in them whatever memory held, column 0 included.
SilentTruncation ==
    (IsPar /\ call.sections >= 1 /\ N % call.sections # 0) =>
        LET size == N \div call.sections
            kept == call.sections * size
        IN /\ T >= 1 => pc # "error"
           /\ \A i \in DOMAIN fr : fr[i].num_paths = size
           /\ \A w \in writes : w[2] < kept
           /\ pc \in {"allocated", "prange"} =>
                 \A r \in kept..(N - 1) : X[r] = Empty1(T)
           /\ pc = "done" =>
                 \A r \in kept..(N - 1) : \A c \in 0..(T - 1) : X[r][c] \in GarbageValues

\* A call with three paths in two chunks has returned; its last row was
\* never stored.
WitnessRemainderRow ==
    /\ pc = "done" /\ IsPar /\ N = 3 /\ call.sections = 2 /\ T = 2
    /\ Cardinality(writes) = 2
    /\ X[2][0] # initial_x
    /\ X[2][0] # X[2][1]

\* The cells past column 0 that frame f has stored.
StoredCells(f) == { <<e[1], e[2]>> : e \in f.log }

\* C14: inside a batch the periods are processed in increasing order: a
\* level of period t+1 is stored only once the levels of all paths at
\* period t are stored, and the level a step reads has been stored.
TimeMajor ==
    \A i \in DOMAIN fr :
        LET f == fr[i]
            paths == 0..(f.num_paths - 1)
        IN /\ \A e \in f.log :
                /\ e[2] >= 1 /\ e[2] <= f.t + 1
                /\ e[2] = f.t + 1 => f.pc = "inner"
                /\ e[2] >= 2 => \A m \in paths : <<m, e[2] - 1>> \in StoredCells(f)
           /\ (f.pc \in {"inner", "column", "tasks"} /\ f.t >= 1) =>
                \A m \in paths : <<m, f.t>> \in StoredCells(f)
           /\ f.pc \in {"draw", "inner", "column", "tasks"} =>
                \A m \in paths : \A c \in 1..f.t : <<m, c>> \in StoredCells(f)

\* The second period of a batch of two paths is half done: path 0 has its
\* level of period 2, path 1 not yet.
WitnessMidPeriod ==
    \E i \in DOMAIN fr :
        LET f == fr[i] IN
        /\ f.num_paths = 2 /\ f.pc = "inner" /\ f.t = 1 /\ f.m = 1
        /\ <<0, 2>> \in StoredCells(f) /\ <<1, 2>> \notin StoredCells(f)

\* C15: a batched simulator draws exactly num_paths shocks in each of its
\* sim_length - 1 periods and uses shock m of period t for path m only: a
\* full run consumes num_paths * (sim_length - 1) shocks of the generator,
\* and each (path, period) pair consumes one shock that no other pair uses.
\* The single-path simulators consume sim_length - 1 shocks, in order.
DemandConsumption ==
    /\ \A i \in DOMAIN fr :
        LET f == fr[i]
            n == f.num_paths
        IN /\ \A t \in DOMAIN f.D : DOMAIN f.D[t] = 0..(n - 1)
           /\ \A e \in f.log : e[3] = f.D[e[2] - 1][e[1]]
           /\ Cardinality(f.log) = Cardinality(StoredCells(f))
           /\ (f.pc \in {"ret", "finished"} /\ f.sim_length >= 1) =>
                /\ DOMAIN f.D = 0..(f.sim_length - 2)
                /\ StoredCells(f) = (0..(n - 1)) \X (1..(f.sim_length - 1))
    /\ (call.fn \in BatchFns /\ fr # <<>>) =>
        LET f == fr[0]
            n == f.num_paths
        IN /\ rng[0].pos = n * Cardinality(DOMAIN f.D)
           /\ \A t \in DOMAIN f.D : \A m \in 0..(n - 1) :
                f.D[t][m] = rng[0].tape[t * n + m + 1]
           /\ (pc = "done" /\ T >= 1) => rng[0].pos = N * (T - 1)
    /\ (call.fn \in OneFns /\ pc = "done") =>
        /\ rng[0].pos = T - 1
        /\ DOMAIN D1 = 0..(T - 2)
        /\ \A k \in DOMAIN D1 :
            /\ D1[k] = rng[0].tape[k + 1]
            /\ X1[k + 1] = StepSpec(X1[k], D1[k])

\* A batch of two paths over three periods has returned: four shocks were
\* consumed, and the two paths met different shocks in the first period.
WitnessFourShocks ==
    /\ pc = "done" /\ call.fn \in BatchFns /\ N = 2 /\ T = 3
    /\ rng[0].pos = 4
    /\ fr[0].D[0][0] # fr[0].D[0][1]
    /\ <<1, 2, fr[0].D[1][1]>> \in fr[0].log

\* C16: for the same shocks the whole-column updates of
\* sim_paths_vectorized and sim_paths_vectorized_parallel give the ensemble
\* the per-path inner loop of sim_paths_jitted gives, whatever the order in
\* which the elementwise tasks of a period are executed.
FineGrainedEquivalence ==
    \A i \in DOMAIN fr :
        LET f == fr[i] IN
        /\ (f.sim_length >= 1 /\ f.pc = "ret") =>
             f.X = sim_paths_jitted(f.num_paths, f.sim_length, f.D)
        /\ f.pc = "tasks" =>
             \A m \in (0..(f.num_paths - 1)) \ f.todo :
                f.out[m] = InnerLoop(f.X, f.dvals, f.t, 0)[m][f.t + 1]

\* The ufunc-parallel simulator has finished two paths over three periods,
\* one restocked from the reorder point itself, the two ending apart.
WitnessUfuncEnsemble ==
    /\ call.fn = "sim_paths_vectorized_parallel" /\ pc = "done"
    /\ N = 2 /\ T = 3 /\ initial_x = s
    /\ X[0][2] # X[1][2]
    /\ X = sim_paths_jitted(N, T, fr[0].D)

ValidSizes == N >= 1 /\ T >= 1 /\ call.sections >= 1

\* C17: for valid num_paths, sim_length and sections every chunk finishes
\* after exactly sim_length - 1 periods, a chunk that has started can always
\* take its next step whatever the other chunks do, and with the threads
\* scheduled fairly the chunk-parallel simulator returns.
Termination ==
    /\ [](ValidSizes =>
            \A i \in DOMAIN fr :
                /\ fr[i].pc \in {"ret", "finished"} => fr[i].t = T - 1
                /\ fr[i].pc \in {"draw", "inner", "ret"} => ENABLED ChunkWorker(i)
                /\ fr[i].pc # "error")
    /\ [](ValidSizes => <>(pc = "done"))

\* Two chunks that fell to the same thread have both run their two periods
\* and the call has returned.
WitnessBothChunksDone ==
    /\ pc = "done" /\ IsPar /\ call.sections = 2 /\ N = 2 /\ T = 3
    /\ fr[0].thread = fr[1].thread
    /\ \A i \in DOMAIN fr : fr[i].pc = "finished" /\ fr[i].t = 2

\* The paths a call has simulated so far, each with the set of its columns
\* that hold a stored level: the rows of every batch, the rows of the
\* returned ensemble that a chunk stored, and the single path.
SimulatedPaths ==
    LET started == { i \in DOMAIN fr : Started(fr[i]) /\ fr[i].sim_length >= 1 }
        batch(i) == { [P |-> fr[i].X[m],
                       cols |-> {0} \cup { c \in DOMAIN fr[i].X[m] :
                                            <<m, c>> \in StoredCells(fr[i]) }] :
                      m \in DOMAIN fr[i].X }
        rows == { [P |-> X[w[2]], cols |-> DOMAIN X[w[2]]] : w \in writes }
        single == IF pc = "done" /\ call.fn \in OneFns
                  THEN { [P |-> X1, cols |-> DOMAIN X1] } ELSE {}
    IN UNION { batch(i) : i \in started } \cup rows \cup single

\* C18: shocks being non-negative, every level of every simulated path is
\* <= max(initial_x, S), every level that follows a level <= s is <= S, and
\* under the notebook's s = 10, S = 100 every stored level lies in
\* [0, 100], far inside the range of the int32 buffer.
UpperBound ==
    LET ok(P, c) ==
            /\ P[c] <= Max(initial_x, S)
            /\ (c >= 1 /\ P[c - 1] <= s) => P[c] <= S
            /\ (s = NotebookReorderPoint /\ S = NotebookOrderUpTo) =>
                  P[c] >= 0 /\ P[c] <= NotebookOrderUpTo
    IN /\ \A i \in DOMAIN fr :
            (Started(fr[i]) /\ fr[i].sim_length >= 1) =>
                \A m \in DOMAIN fr[i].X : \A c \in DOMAIN fr[i].X[m] :
                    (c = 0 \/ Written(fr[i], m, c)) => ok(fr[i].X[m], c)
       /\ \A w \in writes : \A c \in DOMAIN X[w[2]] : ok(X[w[2]], c)
       /\ (pc = "done" /\ call.fn \in OneFns) => \A c \in DOMAIN X1 : ok(X1, c)

\* A path entered above S stays there, falls to the reorder point and is
\* restocked to S.
WitnessAboveOrderUpTo ==
    \E q \in SimulatedPaths :
        /\ initial_x > S /\ {0, 1, 2, 3} \subseteq q.cols
        /\ q.P[0] = 3 /\ q.P[1] = 3 /\ q.P[2] = 2 /\ q.P[3] = 1

\* C19: a level rises only through a reorder: X[t+1] > X[t] implies
\* X[t] <= s, and from a level X[t] > s the next level is <= X[t].
RiseOnlyByReorder ==
    LET ok(P, c) ==
            /\ P[c] > P[c - 1] => P[c - 1] <= s
            /\ P[c - 1] > s => P[c] <= P[c - 1]
    IN /\ \A i \in DOMAIN fr :
            Started(fr[i]) =>
                \A m \in DOMAIN fr[i].X : \A c \in DOMAIN fr[i].X[m] :
                    (c >= 1 /\ Written(fr[i], m, c)) => ok(fr[i].X[m], c)
       /\ \A w \in writes : \A c \in DOMAIN X[w[2]] : c >= 1 => ok(X[w[2]], c)
       /\ (pc = "done" /\ call.fn \in OneFns) =>
            \A c \in DOMAIN X1 : c >= 1 => ok(X1, c)

\* A path fell from 1 to the reorder point 0 and rose back to 1.
WitnessRiseAfterReorder ==
    \E q \in SimulatedPaths :
        /\ {0, 1, 2} \subseteq q.cols
        /\ q.P[0] > s /\ q.P[1] < q.P[0] /\ q.P[1] <= s /\ q.P[2] > q.P[1]

====
